---- MODULE Spec2Model ----
(***************************************************************************)
(* A model of ultrafast/core.py: the Material class (validated range and   *)
(* dispersion-function properties, n / wavevector / brewster), the         *)
(* RIIDMaterial constructor (scan of a decoded RefractiveIndex.info        *)
(* record, formulas 1-9) and the wavelength <-> angular frequency          *)
(* converter.                                                              *)
(*                                                                         *)
(* Numbers.  A Python float is modelled as a binary floating-point number  *)
(* with a Prec-bit significand and round-to-nearest-even, written as the   *)
(* exact rational <<num, den>> in lowest terms (den > 0).  float(),        *)
(* and the multiplications and the division of _converter round; the       *)
(* arithmetic inside the dispersion formulas is carried out on the exact   *)
(* rationals.  A string that the code splits on whitespace is modelled as  *)
(* the sequence of its tokens, a numeric token as the rational it denotes. *)
(***************************************************************************)
EXTENDS Integers, Sequences, FiniteSets, TLC

\* ------------------------------------------------------------ bounds
\* Width of the significand of the modelled float (53 for a Python float).
Prec == 4
\* Longest DATA list of a record.
MaxData == 2
\* Longest tuple offered to the range setter.
MaxRangeLen == 3
\* Largest binary exponent of the floats offered to the converter.
MaxExp == 2
\* Longest chain of conversions applied to one float.
MaxSteps == 2

\* ------------------------------------------------------------ rationals
Abs(x) == IF x < 0 THEN -x ELSE x

RECURSIVE GCD(_, _)
GCD(a, b) == IF b = 0 THEN a ELSE GCD(b, a % b)

RECURSIVE Pow2(_)
Pow2(k) == IF k <= 0 THEN 1 ELSE 2 * Pow2(k - 1)

\* The rational n/d in lowest terms with a positive denominator (d # 0).
Norm(n, d) ==
    LET g == GCD(Abs(n), Abs(d))
        s == IF d < 0 THEN -1 ELSE 1
    IN  <<s * (n \div g), s * (d \div g)>>

Zero == <<0, 1>>
One == <<1, 1>>
Two == <<2, 1>>
Int2Rat(i) == <<i, 1>>

\* Sums over the least common denominator, to keep the integers small.
RAdd(a, b) ==
    LET g == GCD(a[2], b[2])
    IN  Norm(a[1] * (b[2] \div g) + b[1] * (a[2] \div g), (a[2] \div g) * b[2])
RNeg(a) == <<-a[1], a[2]>>
RSub(a, b) == RAdd(a, RNeg(b))
RMul(a, b) == Norm(a[1] * b[1], a[2] * b[2])
\* b # Zero
RDiv(a, b) == Norm(a[1] * b[2], a[2] * b[1])
RLess(a, b) == a[1] * b[2] < b[1] * a[2]
RLeq(a, b) == a[1] * b[2] <= b[1] * a[2]
IsInt(a) == a[2] = 1

\* ------------------------------------------------------------ floats
\* The exponent e with 2^(Prec-1) <= (n/d) / 2^e < 2^Prec, for n, d > 0.
RECURSIVE Expo(_, _)
Expo(n, d) ==
    IF n >= d * Pow2(Prec) THEN Expo(n, 2 * d) + 1
    ELSE IF n < d * Pow2(Prec - 1) THEN Expo(2 * n, d) - 1
    ELSE 0

\* Round-half-even of the positive rational n/d to an integer.
RoundInt(n, d) ==
    LET q == n \div d
        r == n % d
    IN  IF 2 * r > d \/ (2 * r = d /\ q % 2 = 1) THEN q + 1 ELSE q

\* The float with significand m and exponent e, negative for s = -1.
Float(s, m, e) == IF e >= 0 THEN Norm(s * m * Pow2(e), 1) ELSE Norm(s * m, Pow2(-e))
\* The float nearest to s * n/d (n, d > 0), whose exponent is e.
RoundAt(s, n, d, e) ==
    Float(s, IF e >= 0 THEN RoundInt(n, d * Pow2(e)) ELSE RoundInt(n * Pow2(-e), d), e)
\* The float nearest to the rational q (ties to even); no exponent limit.
Round(q) ==
    IF q[1] = 0 THEN Zero
    ELSE RoundAt(IF q[1] < 0 THEN -1 ELSE 1, Abs(q[1]), q[2], Expo(Abs(q[1]), q[2]))

\* float(x) of a numeric token x.
float(x) == Round(x)
FMul(a, b) == Round(RMul(a, b))
\* b # Zero
FDiv(a, b) == Round(RDiv(a, b))

\* ------------------------------------------------------------ converter
\* scipy.constants.pi and speed_of_light * 1e-9 (um/fs) as floats, from
\* their leading decimal digits.
pi == Round(<<3142, 1000>>)
c == Round(<<2998, 10000>>)

\* c * 2 * pi / value, evaluated left to right (value # 0).
\* A variant of the converter that multiplies.
_converter_product(value) == FMul(FMul(FMul(c, Two), pi), value)
_converter(value) == FDiv(FMul(FMul(c, Two), pi), value)
frequency(lambda_) == _converter(lambda_)
wavelength(omega) == _converter(omega)

\* ------------------------------------------------------------ values
\* Python's None.
NoneValue == [kind |-> "None"]
\* The class attribute _range_ = None, before the setter has stored a pair
\* (a stored range always has two elements).
NoneRange == <<>>

\* What a call does: it returns a value or raises an exception.
Return(v) == [exc |-> "none", ret |-> v]
Raised(o) == o.exc # "none"
\* The built-in exceptions (ZeroDivisionError, ValueError, IndexError).
Builtin(name) == [exc |-> name]

UltrafastError(message) == [exc |-> "UltrafastError", message |-> message]
RangeError(value, valid, message) ==
    [exc |-> "RangeError", value |-> value, valid |-> valid, message |-> message]
PropertySetError(property_, message) ==
    [exc |-> "PropertySetError", property_ |-> property_, message |-> message]

\* A refractive index: the rational num, or its square root.
Direct(q) == [num |-> q, root |-> FALSE]
sqrt(q) == IF RLess(q, Zero) THEN Builtin("ValueError")
           ELSE Return([num |-> q, root |-> TRUE])

\* ------------------------------------------------------------ formulas
Min(a, b) == IF a < b THEN a ELSE b

\* x[k] of a Python list, k counted from 0: IndexError past its end.
Item(x, k) == IF k < Len(x) THEN Return(x[k + 1]) ELSE Builtin("IndexError")
\* x[i:j] of a Python list: never raises, stops at the end of the list.
Slice(x, i, j) == SubSeq(x, i + 1, Min(j, Len(x)))
\* [x[i:i + 2] for i in range(start, len(x), 2)]
Pairs(x, start) ==
    [k \in 1..(IF Len(x) <= start THEN 0 ELSE (Len(x) - start + 1) \div 2) |->
        Slice(x, start + 2 * (k - 1), start + 2 * k)]

\* a / b on floats.
Div(a, b) == IF b = Zero THEN Builtin("ZeroDivisionError") ELSE Return(RDiv(a, b))

RECURSIVE RPowNat(_, _)
RPowNat(b, k) == IF k = 0 THEN One ELSE RMul(b, RPowNat(b, k - 1))
\* math.pow(b, e) for an integer-valued exponent e: a zero base with a
\* negative exponent is a math domain error (PowFails), otherwise PowVal.
PowFails(b, e) == e[1] < 0 /\ b = Zero
PowVal(b, e) ==
    IF e[1] >= 0 THEN RPowNat(b, e[1]) ELSE RDiv(One, RPowNat(b, -e[1]))
pow(b, e) == IF PowFails(b, e) THEN Builtin("ValueError") ELSE Return(PowVal(b, e))
Sq(b) == RMul(b, b)

\* acc += t for each t of ts in turn; the first exception propagates.
RECURSIVE AddAll(_, _)
AddAll(acc, ts) ==
    IF Raised(acc) \/ ts = <<>> THEN acc
    ELSE IF Raised(Head(ts)) THEN Head(ts)
    ELSE AddAll(Return(RAdd(acc.ret, Head(ts).ret)), Tail(ts))

\* sqrt(n2), or the exception that computing n2 raised.
Root(n2) == IF Raised(n2) THEN n2 ELSE sqrt(n2.ret)
\* n returned as it is, or the exception that computing n raised.
Plain(n_) == IF Raised(n_) THEN n_ ELSE Return(Direct(n_.ret))

\* A variant of the term that reads a missing x[1] as 0.
Term1_padded(x, lambda_) ==
    IF Len(x) < 2 THEN Return(Zero)
    ELSE Div(RMul(x[1], Sq(lambda_)), RSub(Sq(lambda_), Sq(x[2])))
\* x[0] * pow(lambda_, 2) / (pow(lambda_, 2) - pow(x[1], 2))
Term1(x, lambda_) ==
    IF Len(x) < 2 THEN Builtin("IndexError")
    ELSE Div(RMul(x[1], Sq(lambda_)), RSub(Sq(lambda_), Sq(x[2])))
\* x[0] * pow(lambda_, 2) / (pow(lambda_, 2) - x[1])
Term2(x, lambda_) ==
    IF Len(x) < 2 THEN Builtin("IndexError")
    ELSE Div(RMul(x[1], Sq(lambda_)), RSub(Sq(lambda_), x[2]))
\* x[0] * pow(lambda_, x[1])
TermPoly(x, lambda_) ==
    IF Len(x) < 2 THEN Builtin("IndexError")
    ELSE IF PowFails(lambda_, x[2]) THEN Builtin("ValueError")
    ELSE Return(RMul(x[1], PowVal(lambda_, x[2])))
\* x[0] * pow(lambda_, x[1]) / (pow(lambda_, 2) - pow(x[2], x[3]))
Term4(x, lambda_) ==
    IF Len(x) < 2 THEN Builtin("IndexError")
    ELSE IF PowFails(lambda_, x[2]) THEN Builtin("ValueError")
    ELSE IF Len(x) < 4 THEN Builtin("IndexError")
    ELSE IF PowFails(x[3], x[4]) THEN Builtin("ValueError")
    ELSE Div(RMul(x[1], PowVal(lambda_, x[2])),
             RSub(Sq(lambda_), PowVal(x[3], x[4])))
\* x[0] / (x[1] - pow(lambda_, -2))
Term6(x, lambda_) ==
    IF Len(x) < 2 THEN Builtin("IndexError")
    ELSE IF PowFails(lambda_, <<-2, 1>>) THEN Builtin("ValueError")
    ELSE Div(x[1], RSub(x[2], PowVal(lambda_, <<-2, 1>>)))

\* coefficients[0], or 1 + coefficients[0]
First(coefficients) == Item(coefficients, 0)
OnePlusFirst(coefficients) ==
    IF Len(coefficients) < 1 THEN Builtin("IndexError")
    ELSE Return(RAdd(One, coefficients[1]))

\* Formula 1 - Sellmeier (preferred)
Formula1(coefficients, lambda_) ==
    Root(AddAll(OnePlusFirst(coefficients),
                [k \in DOMAIN Pairs(coefficients, 1) |->
                    Term1(Pairs(coefficients, 1)[k], lambda_)]))
\* Formula 2 - Sellmeier-2
Formula2(coefficients, lambda_) ==
    Root(AddAll(OnePlusFirst(coefficients),
                [k \in DOMAIN Pairs(coefficients, 1) |->
                    Term2(Pairs(coefficients, 1)[k], lambda_)]))
\* Formula 3 - Polynomial
Formula3(coefficients, lambda_) ==
    Root(AddAll(First(coefficients),
                [k \in DOMAIN Pairs(coefficients, 1) |->
                    TermPoly(Pairs(coefficients, 1)[k], lambda_)]))
\* Formula 4 - RefractiveIndex.info
Formula4(coefficients, lambda_) ==
    Root(AddAll(AddAll(First(coefficients),
                       <<Term4(Slice(coefficients, 1, 5), lambda_),
                         Term4(Slice(coefficients, 5, 9), lambda_)>>),
                [k \in DOMAIN Pairs(coefficients, 9) |->
                    TermPoly(Pairs(coefficients, 9)[k], lambda_)]))
\* Formula 5 - Cauchy
Formula5(coefficients, lambda_) ==
    Plain(AddAll(First(coefficients),
                 [k \in DOMAIN Pairs(coefficients, 1) |->
                     TermPoly(Pairs(coefficients, 1)[k], lambda_)]))
\* Formula 6 - Gases
Formula6(coefficients, lambda_) ==
    Plain(AddAll(OnePlusFirst(coefficients),
                 [k \in DOMAIN Pairs(coefficients, 1) |->
                     Term6(Pairs(coefficients, 1)[k], lambda_)]))

\* The literal 0.028 of formula 7.
Herzberger == float(<<28, 1000>>)
\* A variant of formula 7 whose polynomial starts at coefficients[4].
Formula7_from_fifth(coefficients, lambda_) ==
    LET L2 == RSub(Sq(lambda_), Herzberger)
    IN  IF Len(coefficients) < 2 THEN Builtin("IndexError")
        ELSE IF L2 = Zero THEN Builtin("ZeroDivisionError")
        ELSE IF Len(coefficients) < 3 THEN Builtin("IndexError")
        ELSE Plain(AddAll(
                Return(RAdd(RAdd(coefficients[1], RDiv(coefficients[2], L2)),
                            RMul(coefficients[3], PowVal(L2, <<-2, 1>>)))),
                [i \in 1..Len(Slice(coefficients, 4, Len(coefficients))) |->
                    Return(RMul(Slice(coefficients, 4, Len(coefficients))[i],
                                RPowNat(lambda_, 2 * i)))]))
\* Formula 7 - Herzberger
Formula7(coefficients, lambda_) ==
    LET L2 == RSub(Sq(lambda_), Herzberger)
    IN  IF Len(coefficients) < 2 THEN Builtin("IndexError")
        ELSE IF L2 = Zero THEN Builtin("ZeroDivisionError")
        ELSE IF Len(coefficients) < 3 THEN Builtin("IndexError")
        ELSE Plain(AddAll(
                Return(RAdd(RAdd(coefficients[1], RDiv(coefficients[2], L2)),
                            RMul(coefficients[3], PowVal(L2, <<-2, 1>>)))),
                [i \in 1..Len(Slice(coefficients, 3, Len(coefficients))) |->
                    Return(RMul(Slice(coefficients, 3, Len(coefficients))[i],
                                RPowNat(lambda_, 2 * i)))]))
\* Formula 8 - Retro
Formula8(coefficients, lambda_) ==
    LET alpha == RAdd(RAdd(coefficients[1],
                           RDiv(RMul(coefficients[2], Sq(lambda_)),
                                RSub(Sq(lambda_), coefficients[3]))),
                      RMul(coefficients[4], Sq(lambda_)))
    IN  IF Len(coefficients) < 3 THEN Builtin("IndexError")
        ELSE IF RSub(Sq(lambda_), coefficients[3]) = Zero
        THEN Builtin("ZeroDivisionError")
        ELSE IF Len(coefficients) < 4 THEN Builtin("IndexError")
        ELSE IF RSub(alpha, One) = Zero THEN Builtin("ZeroDivisionError")
        ELSE sqrt(RNeg(RDiv(RAdd(RMul(Two, alpha), One), RSub(alpha, One))))
\* Formula 9 - Exotic
Formula9(coefficients, lambda_) ==
    LET n2 == coefficients[1]
        t1 == RDiv(coefficients[2], RSub(Sq(lambda_), coefficients[3]))
        d == RSub(lambda_, coefficients[5])
        t2 == RDiv(RMul(coefficients[4], d), RAdd(Sq(d), coefficients[6]))
    IN  IF Len(coefficients) < 3 THEN Builtin("IndexError")
        ELSE IF RSub(Sq(lambda_), coefficients[3]) = Zero
        THEN Builtin("ZeroDivisionError")
        ELSE IF Len(coefficients) < 6 THEN Builtin("IndexError")
        ELSE IF RAdd(Sq(d), coefficients[6]) = Zero
        THEN Builtin("ZeroDivisionError")
        ELSE sqrt(RAdd(RAdd(n2, t1), t2))

\* The function of wavelength that the branch for `formula` defines.
fun_of_lambda(formula, coefficients, lambda_) ==
    CASE formula = 1 -> Formula1(coefficients, lambda_)
      [] formula = 2 -> Formula2(coefficients, lambda_)
      [] formula = 3 -> Formula3(coefficients, lambda_)
      [] formula = 4 -> Formula4(coefficients, lambda_)
      [] formula = 5 -> Formula5(coefficients, lambda_)
      [] formula = 6 -> Formula6(coefficients, lambda_)
      [] formula = 7 -> Formula7(coefficients, lambda_)
      [] formula = 8 -> Formula8(coefficients, lambda_)
      [] formula = 9 -> Formula9(coefficients, lambda_)

\* frequency_wrap: the closure is the value
\* [kind |-> "fun_of_omega", formula, coefficients]; calling it converts
\* omega to a wavelength (a division by omega) and applies the formula.
frequency_wrap(formula, coefficients) ==
    [kind |-> "fun_of_omega", formula |-> formula, coefficients |-> coefficients]
fun_of_omega(fun, omega) ==
    IF omega = Zero THEN Builtin("ZeroDivisionError")
    ELSE fun_of_lambda(fun.formula, fun.coefficients, wavelength(omega))

\* ------------------------------------------------------------ Material
\* The callables offered as dispersion functions: the tests' dummy
\* n(omega) = omega, and a constant function.
Dummy == [kind |-> "function", name |-> "n"]
Constant == [kind |-> "function", name |-> "constant"]
\* A value that is not callable, besides None.
Number == [kind |-> "float"]

callable(value) == value.kind \in {"function", "fun_of_omega", "wrapper"}

\* value(*args) for a stored dispersion function.
Apply(value, omega) ==
    CASE value.kind = "fun_of_omega" -> fun_of_omega(value, omega)
      [] value = Dummy -> Return(Direct(omega))
      [] value = Constant -> Return(Direct(<<3, 2>>))

\* Material._assert_frequency
\* A variant that checks the lower bound only.
_assert_frequency_lower(self, omega) ==
    IF ~RLeq(self._range_[1], omega)
    THEN RangeError(omega, self._range_, "Angular frequency out of material range")
    ELSE Return(NoneValue)
_assert_frequency(self, omega) ==
    IF ~(RLeq(self._range_[1], omega) /\ RLeq(omega, self._range_[2]))
    THEN RangeError(omega, self._range_, "Angular frequency out of material range")
    ELSE Return(NoneValue)

\* value[::-1]
Reverse(value) == [k \in 1..Len(value) |-> value[Len(value) - k + 1]]

\* A variant of the setter that stores the pair as given.
range_setter_unsorted(self, value) ==
    IF Len(value) # 2
    THEN PropertySetError("range_", "Frequency range is not a 2-tuple")
    ELSE Return([self EXCEPT !._range_ = value])
\* A variant of the setter that rejects only what is shorter than a pair.
range_setter_lenient(self, value) ==
    IF Len(value) < 2
    THEN PropertySetError("range_", "Frequency range is not a 2-tuple")
    ELSE Return([self EXCEPT !._range_ =
                    IF RLess(value[2], value[1])
                    THEN <<value[2], value[1]>> ELSE <<value[1], value[2]>>])

\* Material.range_ (setter): returns self with the range stored.
range_setter(self, value) ==
    IF Len(value) # 2
    THEN PropertySetError("range_", "Frequency range is not a 2-tuple")
    ELSE Return([self EXCEPT !._range_ =
                    IF RLess(value[2], value[1]) THEN Reverse(value) ELSE value])

\* A variant of the setter that keeps a function that is already stored.
n_setter_once(self, value) ==
    IF ~callable(value)
    THEN PropertySetError("n", "Refractive index function is not callable")
    ELSE IF self._n # NoneValue THEN Return(self)
    ELSE Return([self EXCEPT !._n = [kind |-> "wrapper", value |-> value]])

\* Material.n (setter): returns self with the wrapped function stored.
n_setter(self, value) ==
    IF ~callable(value)
    THEN PropertySetError("n", "Refractive index function is not callable")
    ELSE Return([self EXCEPT !._n = [kind |-> "wrapper", value |-> value]])

\* A variant of the wrapper that checks omega and evaluates nothing: 1.
n_check_only(self, omega) ==
    LET a == _assert_frequency(self, omega)
    IN  IF Raised(a) THEN [out |-> a, evaluated |-> <<>>]
        ELSE [out |-> Return(Direct(One)), evaluated |-> <<>>]

\* The wrapper n(*args) stored by the setter, called as self.n(omega).  With
\* the outcome, the list of the functions that were evaluated.
n(self, omega) ==
    LET a == _assert_frequency(self, omega)
    IN  IF Raised(a) THEN [out |-> a, evaluated |-> <<>>]
        ELSE [out |-> Apply(self._n.value, omega),
              evaluated |-> <<self._n.value>>]

\* Material.__init__: self.n = n, then self.range_ = range_, then the rest.
AfterRange(s2, name, references, comments) ==
    IF Raised(s2) THEN s2
    ELSE Return([s2.ret EXCEPT !.name = name,
                               !.references = references,
                               !.comments = comments])
AfterN(s1, range_, name, references, comments) ==
    IF Raised(s1) THEN s1
    ELSE AfterRange(range_setter(s1.ret, range_), name, references, comments)
Material__init__(self, n_, range_, name, references, comments) ==
    AfterN(n_setter(self, n_), range_, name, references, comments)

\* The instance before __init__ has run: the class attributes.
NewMaterial ==
    [kind |-> "Material", _n |-> NoneValue, _range_ |-> NoneRange,
     name |-> NoneValue, references |-> NoneValue, comments |-> NoneValue]

\* Material.wavevector: omega * self.n(omega) / c, as a term; r is
\* self.n(omega).
WavevectorOf(omega, r) ==
    IF Raised(r.out) THEN r
    ELSE [out |-> Return([fn |-> "omega * n / c", omega |-> omega,
                          n |-> r.out.ret, c |-> c]),
          evaluated |-> r.evaluated]
\* The frequency assertion `a` first: its exception, or what follows.
Asserted(a, then) == IF Raised(a) THEN [out |-> a, evaluated |-> <<>>] ELSE then
wavevector(self, omega) ==
    Asserted(_assert_frequency(self, omega), WavevectorOf(omega, n(self, omega)))

\* ------------------------------------------------------------ RIIDMaterial
\* str.startswith on token sequences.
startswith(tokens, prefix) ==
    Len(tokens) >= Len(prefix) /\ SubSeq(tokens, 1, Len(prefix)) = prefix
\* int(token) for the decimal token of a formula index.
int(token) == CHOOSE i \in 0..99 : ToString(i) = token

\* What the datum loop leaves behind: n, range_ and self.type_ (found),
\* or the RangeError of an unsupported formula index.
Found(n_, range_, type_) ==
    [exc |-> "none", n |-> n_, range_ |-> range_, type_ |-> type_]

\* A variant of the datum loop that passes over a tabulated n datum.
RECURSIVE DatumLoop_passing(_, _, _)
DatumLoop_passing(data, i, type_) ==
    IF i > Len(data) THEN Found(NoneValue, NoneRange, type_)
    ELSE LET datum == data[i]
         IN  IF startswith(datum.type, <<"formula">>)
             THEN LET range_ == [k \in 1..Len(datum.range) |->
                                    frequency(float(datum.range[Len(datum.range) - k + 1]))]
                      coefficients == [k \in 1..Len(datum.coefficients) |->
                                          float(datum.coefficients[k])]
                      formula == int(datum.type[2])
                  IN  IF formula \in 1..9
                      THEN Found(frequency_wrap(formula, coefficients),
                                 range_, datum.type)
                      ELSE RangeError(formula, <<1, 9>>,
                                      "RIID dispersion formula out of range")
             ELSE DatumLoop_passing(data, i + 1, datum.type)
\* A variant of the datum loop that passes over an unsupported formula.
RECURSIVE DatumLoop_supported(_, _, _)
DatumLoop_supported(data, i, type_) ==
    IF i > Len(data) THEN Found(NoneValue, NoneRange, type_)
    ELSE LET datum == data[i]
         IN  IF startswith(datum.type, <<"formula">>)
                /\ int(datum.type[2]) \in 1..9
             THEN Found(frequency_wrap(int(datum.type[2]),
                            [k \in 1..Len(datum.coefficients) |->
                                float(datum.coefficients[k])]),
                        [k \in 1..Len(datum.range) |->
                            frequency(float(datum.range[Len(datum.range) - k + 1]))],
                        datum.type)
             ELSE IF startswith(datum.type, <<"tabulated", "n">>)
             THEN Found(NoneValue, NoneRange, datum.type)
             ELSE DatumLoop_supported(data, i + 1, datum.type)

\* for datum in entry["DATA"], from the i-th datum on.  The range bounds are
\* positive wavelengths, the coefficients numeric tokens.
RECURSIVE DatumLoop(_, _, _)
DatumLoop(data, i, type_) ==
    IF i > Len(data) THEN Found(NoneValue, NoneRange, type_)
    ELSE LET datum == data[i]
         IN  IF startswith(datum.type, <<"formula">>)
             THEN LET range_ == [k \in 1..Len(datum.range) |->
                                    frequency(float(Reverse(datum.range)[k]))]
                      coefficients == [k \in 1..Len(datum.coefficients) |->
                                          float(datum.coefficients[k])]
                      formula == int(datum.type[2])
                  IN  IF formula \in 1..9
                      THEN Found(frequency_wrap(formula, coefficients),
                                 range_, datum.type)
                      ELSE RangeError(formula, <<1, 9>>,
                                      "RIID dispersion formula out of range")
             ELSE IF startswith(datum.type, <<"tabulated", "n">>)
             THEN Found(NoneValue, NoneRange, datum.type)
             ELSE DatumLoop(data, i + 1, datum.type)

\* RIIDMaterial.__init__ after the datum loop, which left `loop` behind.
AfterLoop(self, db, entry, loop) ==
    IF Raised(loop) THEN loop
    ELSE IF "DATA" \in DOMAIN entry /\ loop.n = NoneValue
    THEN UltrafastError("No dispersion data found in RIID entry")
    ELSE Material__init__([self EXCEPT !.type_ = loop.type_],
                          loop.n, loop.range_, db,
                          IF "REFERENCES" \in DOMAIN entry
                          THEN entry.REFERENCES ELSE NoneValue,
                          IF "COMMENTS" \in DOMAIN entry
                          THEN entry.COMMENTS ELSE NoneValue)

\* RIIDMaterial.__init__, from the decoded record `entry` of `db`.
RIIDMaterial__init__(self, db, entry) ==
    AfterLoop(self, db, entry,
              IF "DATA" \in DOMAIN entry
              THEN DatumLoop(entry.DATA, 1, self.type_)
              ELSE Found(NoneValue, NoneRange, self.type_))

\* The instance before __init__ has run: the class attributes.
NewRIIDMaterial ==
    [kind |-> "RIIDMaterial", _n |-> NoneValue, _range_ |-> NoneRange,
     name |-> NoneValue, references |-> NoneValue, comments |-> NoneValue,
     type_ |-> NoneValue]

\* The record of air (Ciddor 1996) that the module fetches on import: a
\* formula 6 entry, here with the first of its two resonance terms and with
\* the leading digits of its numbers.
Ciddor ==
    [REFERENCES |-> "Ciddor 1996", COMMENTS |-> "Standard air",
     DATA |-> <<[type |-> <<"formula", "6">>,
                 range |-> <<<<23, 100>>, <<169, 100>>>>,
                 coefficients |-> <<Zero, <<58, 1000>>, <<238, 1>>>>]>>]

\* ------------------------------------------------------------ inputs
Ten == <<10, 1>>
\* The bounds of the tests' range (1, 10), in tuples of every length.
RangeVals == {One, Ten}
RangeTuples == UNION {[1..k -> RangeVals] : k \in 0..MaxRangeLen}
\* The values offered to the dispersion-function setter.
NValues == {Dummy, Constant, NoneValue, Number}
\* The angular frequencies offered to n, wavevector and brewster.
Omegas == {<<1, 8>>, One, frequency(float(<<3, 2>>)), Two,
           frequency(float(One)), Ten}

\* A coefficients field with the grouping that formula `k` expects.
Coefficients(k) ==
    CASE k = 2 -> <<Zero, One, Two>>
      [] k = 3 -> <<Two, One, Two>>
      [] k = 4 -> <<One, One, Two, One, Two, One, Zero, Two, One>>
      [] k = 5 -> <<One, One, <<-2, 1>>>>
      [] k = 6 -> <<Zero, One, Two>>
      [] k = 7 -> <<One, One, Zero, One>>
      [] k = 8 -> <<<<1, 2>>, Zero, One, Zero>>
      [] k = 9 -> <<One, One, One, One, One, One>>
      [] OTHER -> <<Zero, One, <<3, 2>>>>
\* The same field with its last coefficient missing.
Short(coefficients) == SubSeq(coefficients, 1, Len(coefficients) - 1)
\* The same field with one coefficient more.
Long(coefficients) == Append(coefficients, One)

FormulaDatum(token, range_, coefficients) ==
    [type |-> <<"formula", token>>, range |-> range_,
     coefficients |-> coefficients]
\* The data entries of the records: formulas 1-9 with a well and an ill sized
\* coefficients field, formulas 8 and 9 with a coefficient more than they
\* read, formula 7 with two coefficients after the third and with none,
\* formula 1 with other range fields, the unsupported
\* formulas 0 and 12, tabulated entries and an entry of unknown type.
Datums ==
    {FormulaDatum(ToString(k), <<Ten, One>>, Coefficients(k)) : k \in 1..9}
    \cup {FormulaDatum(ToString(k), <<Ten, One>>, Short(Coefficients(k))) :
            k \in 1..9}
    \cup {FormulaDatum(ToString(k), <<Ten, One>>, Long(Coefficients(k))) :
            k \in 8..9}
    \cup {FormulaDatum("7", <<Ten, One>>, <<One, Zero, Zero, One, One>>),
          FormulaDatum("7", <<Ten, One>>, <<One, Zero, <<1, 16>>>>),
          FormulaDatum("1", <<One, Ten>>, Coefficients(1)),
          FormulaDatum("1", <<Two, <<1, 2>>>>, Coefficients(1)),
          FormulaDatum("0", <<Ten, One>>, Coefficients(0)),
          FormulaDatum("12", <<Ten, One>>, Coefficients(12)),
          [type |-> <<"tabulated", "n">>, data |-> "n"],
          [type |-> <<"tabulated", "k">>, data |-> "k"],
          [type |-> <<"unknown">>]}
DataLists == UNION {[1..k -> Datums] : k \in 0..MaxData}
\* The decoded records: with a DATA list, and without one.
Entries ==
    {[DATA |-> data, REFERENCES |-> "references", COMMENTS |-> "comments"] :
        data \in DataLists}
    \cup {[REFERENCES |-> "references", COMMENTS |-> "comments"]}

\* The floats offered to the converter: every significand, both signs,
\* exponents up to MaxExp either way.
Floats ==
    {Norm(s * m * Pow2(e + MaxExp), Pow2(Prec - 1 + MaxExp)) :
        s \in {-1, 1}, m \in Pow2(Prec - 1)..(Pow2(Prec) - 1),
        e \in (-MaxExp)..MaxExp}

\* ------------------------------------------------------------ state
VARIABLES
    mat,      \* the client's material (None until a construction succeeds)
    last,     \* the last operation: its arguments and what it did
    assigned, \* the function last assigned to mat.n, and the range stored then
    origin,   \* the float handed to the converter
    value,    \* what the conversions made of it
    steps,    \* the conversions applied, in order
    air       \* the module's air material, built on import
vars == <<mat, last, assigned, origin, value, steps, air>>

\* Material.brewster: atan(self.n(omega) / inc_mat.n(omega)), as a term.
\* r is self.n(omega) and i is inc_mat.n(omega), called in this order; a
\* missing inc_mat is the module's air.
BrewsterOf(r, i) ==
    IF Raised(r.out) THEN r
    ELSE IF Raised(i.out)
    THEN [out |-> i.out, evaluated |-> r.evaluated \o i.evaluated]
    ELSE [out |-> IF i.out.ret.num = Zero
                  THEN Builtin("ZeroDivisionError")
                  ELSE Return([fn |-> "atan(n / inc_n)",
                               n |-> r.out.ret, inc_n |-> i.out.ret]),
          evaluated |-> r.evaluated \o i.evaluated]
brewster(self, omega, inc_mat) ==
    Asserted(_assert_frequency(self, omega),
             BrewsterOf(n(self, omega),
                        n(IF inc_mat = NoneValue THEN air ELSE inc_mat, omega)))


Init ==
    /\ mat = NoneValue
    /\ last = [op |-> "start"]
    /\ assigned = [value |-> NoneValue, range_ |-> NoneRange]
    /\ origin = One
    /\ value = One
    /\ steps = <<>>
    /\ air = RIIDMaterial__init__(NewRIIDMaterial, "Ciddor.yml", Ciddor).ret

\* The assignment mat = <constructor call>: it takes place only if the call
\* returns.  `what` names the call, `out` is what it did.
Constructed(what, out) ==
    /\ last' = [what EXCEPT !.out = out]
    /\ mat' = IF Raised(out) THEN mat ELSE out.ret
    /\ assigned' = IF Raised(out) THEN assigned
                   ELSE [value |-> out.ret._n.value, range_ |-> NoneRange]

\* The assignment mat.<property> = value: the setter did `out`.
Assigned(what, out) ==
    /\ last' = [what EXCEPT !.out = IF Raised(out) THEN out ELSE Return(NoneValue)]
    /\ mat' = IF Raised(out) THEN mat ELSE out.ret

\* A method call that did `r`.
Called(what, r) ==
    last' = [what EXCEPT !.out = r.out, !.evaluated = r.evaluated]

\* mat = Material(n, range_, name, references, comments)
Construct(n_, range_) ==
    /\ last.op = "start"
    /\ Constructed([op |-> "Material", n |-> n_, range_ |-> range_, out |-> NoneValue],
                   Material__init__(NewMaterial, n_, range_, "Test material name",
                       "Test material references", "Test material comments"))
    /\ UNCHANGED <<origin, value, steps, air>>

\* mat = RIIDMaterial(db), db holding the record `entry`
ConstructRIID(entry) ==
    /\ last.op = "start"
    /\ Constructed([op |-> "RIIDMaterial", entry |-> entry, out |-> NoneValue],
                   RIIDMaterial__init__(NewRIIDMaterial, "db.yml", entry))
    /\ UNCHANGED <<origin, value, steps, air>>

\* mat.range_ = value
SetRange(value_) ==
    /\ mat # NoneValue
    /\ Assigned([op |-> "range_", value |-> value_, out |-> NoneValue],
                range_setter(mat, value_))
    /\ UNCHANGED <<assigned, origin, value, steps, air>>

\* mat.n = value
SetN(value_) ==
    /\ mat # NoneValue
    /\ Assigned([op |-> "n =", value |-> value_, out |-> NoneValue],
                n_setter(mat, value_))
    /\ assigned' = IF callable(value_)
                   THEN [value |-> value_, range_ |-> mat._range_]
                   ELSE assigned
    /\ UNCHANGED <<origin, value, steps, air>>

\* mat.n(omega)
CallN(omega) ==
    /\ mat # NoneValue
    /\ Called([op |-> "n", omega |-> omega, out |-> NoneValue,
               evaluated |-> <<>>],
              n(mat, omega))
    /\ UNCHANGED <<mat, assigned, origin, value, steps, air>>

\* mat.wavevector(omega)
CallWavevector(omega) ==
    /\ mat # NoneValue
    /\ Called([op |-> "wavevector", omega |-> omega, out |-> NoneValue,
               evaluated |-> <<>>],
              wavevector(mat, omega))
    /\ UNCHANGED <<mat, assigned, origin, value, steps, air>>

\* mat.brewster(omega, inc_mat), inc_mat being None (air) or mat itself
CallBrewster(omega, inc_mat) ==
    /\ mat # NoneValue
    /\ Called([op |-> "brewster", omega |-> omega, inc_mat |-> inc_mat,
               out |-> NoneValue, evaluated |-> <<>>],
              brewster(mat, omega, inc_mat))
    /\ UNCHANGED <<mat, assigned, origin, value, steps, air>>

\* A client constructs its material once, and then uses it.
Next ==
    \/ last.op = "start" /\ \E n_ \in NValues, range_ \in RangeTuples :
            Construct(n_, range_)
    \/ last.op = "start" /\ \E entry \in Entries : ConstructRIID(entry)
    \/ mat # NoneValue /\ \E value_ \in RangeTuples : SetRange(value_)
    \/ mat # NoneValue /\ \E value_ \in NValues : SetN(value_)
    \/ mat # NoneValue /\ \E omega \in Omegas : CallN(omega)
    \/ mat # NoneValue /\ \E omega \in Omegas : CallWavevector(omega)
    \/ mat # NoneValue /\ \E omega \in Omegas, inc_mat \in {NoneValue, mat} :
            CallBrewster(omega, inc_mat)

Spec == Init /\ [][Next]_vars

\* ------------------------------------------------------------ converter
InitConv ==
    /\ mat = NoneValue
    /\ last = [op |-> "start"]
    /\ assigned = [value |-> NoneValue, range_ |-> NoneRange]
    /\ origin \in Floats
    /\ value = origin
    /\ steps = <<>>
    /\ air = RIIDMaterial__init__(NewRIIDMaterial, "Ciddor.yml", Ciddor).ret

\* value = frequency(value)
ApplyFrequency ==
    /\ Len(steps) < MaxSteps
    /\ value' = frequency(value)
    /\ steps' = Append(steps, "frequency")
    /\ UNCHANGED <<mat, last, assigned, origin, air>>

\* value = wavelength(value)
ApplyWavelength ==
    /\ Len(steps) < MaxSteps
    /\ value' = wavelength(value)
    /\ steps' = Append(steps, "wavelength")
    /\ UNCHANGED <<mat, last, assigned, origin, air>>

NextConv == ApplyFrequency \/ ApplyWavelength

SpecConv == InitConv /\ [][NextConv]_vars

\* ------------------------------------------------------------ properties
\* omega lies in the closed range r / strictly inside it.
Within(r, omega) == RLeq(r[1], omega) /\ RLeq(omega, r[2])
Inside(r, omega) == RLess(r[1], omega) /\ RLess(omega, r[2])
Method == {"n", "wavevector", "brewster"}
NotCallable == {NoneValue, Number}

\* C1: the stored range is always a pair (low, high) with low <= high: a
\* pair assigned in descending order is stored reversed, a pair assigned in
\* ascending order is stored as given, and assigning the stored range to
\* itself changes nothing.
C1_RangeNormalised ==
    /\ mat # NoneValue =>
          /\ Len(mat._range_) = 2
          /\ RLeq(mat._range_[1], mat._range_[2])
          /\ range_setter(mat, mat._range_) = Return(mat)
    /\ (last.op = "range_" /\ ~Raised(last.out)) =>
          mat._range_ = IF RLess(last.value[2], last.value[1])
                        THEN <<last.value[2], last.value[1]>>
                        ELSE last.value
    /\ (last.op = "Material" /\ ~Raised(last.out)) =>
          mat._range_ = IF RLess(last.range_[2], last.range_[1])
                        THEN <<last.range_[2], last.range_[1]>>
                        ELSE last.range_
\* A descending pair has been assigned and is stored reversed.
C1_Witness ==
    /\ last.op = "range_"
    /\ ~Raised(last.out)
    /\ RLess(last.value[2], last.value[1])
    /\ mat._range_ = <<last.value[2], last.value[1]>>

\* C2: n, wavevector and brewster, called with an omega outside the stored
\* range, raise a RangeError whose value is omega and whose valid is the
\* stored pair, and no dispersion function is evaluated.
C2_OutOfRange ==
    (last.op \in Method /\ ~Within(mat._range_, last.omega)) =>
        /\ last.out.exc = "RangeError"
        /\ last.out.value = last.omega
        /\ last.out.valid = mat._range_
        /\ last.evaluated = <<>>
\* brewster has been called above the range and has raised the RangeError.
C2_Witness ==
    /\ last.op = "brewster"
    /\ RLess(mat._range_[2], last.omega)
    /\ last.out.exc = "RangeError"
    /\ last.out.valid = mat._range_

\* The coefficients field has the size that the formula reads.
CorrectlySized(formula, coefficients) ==
    CASE formula \in {1, 2, 3, 5, 6} -> Len(coefficients) % 2 = 1
      [] formula = 4 -> Len(coefficients) >= 9 /\ Len(coefficients) % 2 = 1
      [] formula = 7 -> Len(coefficients) >= 3
      [] formula = 8 -> Len(coefficients) >= 4
      [] formula = 9 -> Len(coefficients) >= 6
      [] OTHER -> FALSE
\* The dispersion function is a plain function, or a formula of a record
\* with a correctly sized coefficients field.
WellFormed(fun) ==
    fun.kind = "fun_of_omega" => CorrectlySized(fun.formula, fun.coefficients)

\* C3 as stated: n(omega), with omega strictly inside the range, never raises
\* (for a record's formula: given a correctly sized coefficients field).
C3_NeverRaises ==
    (/\ last.op = "n"
     /\ Inside(mat._range_, last.omega)
     /\ WellFormed(mat._n.value)) => ~Raised(last.out)
\* C3: n(omega), with omega strictly inside the range, raises no RangeError:
\* it evaluates the dispersion function once, at omega, and does what the
\* function does.  A plain function returns its value; a record's formula
\* with a correctly sized coefficients field returns its value or fails in
\* its arithmetic (ZeroDivisionError at a pole, ValueError for the root of a
\* negative number or a zero raised to a negative power).
C3_InsideRange ==
    (/\ last.op = "n"
     /\ Inside(mat._range_, last.omega)
     /\ WellFormed(mat._n.value)) =>
        /\ last.evaluated = <<mat._n.value>>
        /\ last.out.exc \in {"none", "ZeroDivisionError", "ValueError"}
        /\ mat._n.value.kind = "function" => last.out.exc = "none"
\* A record's formula has been evaluated strictly inside the range and has
\* failed at a pole.
C3_Witness ==
    /\ last.op = "n"
    /\ Inside(mat._range_, last.omega)
    /\ mat._n.value.kind = "fun_of_omega"
    /\ WellFormed(mat._n.value)
    /\ last.out.exc = "ZeroDivisionError"

\* C4: n(omega) is accepted exactly when omega lies in the range stored at
\* the time of the call, and the function it evaluates is the one assigned
\* most recently, whatever the range was when the function was assigned.
C4_CurrentRange ==
    last.op = "n" =>
        /\ last.out.exc # "RangeError" <=> Within(mat._range_, last.omega)
        /\ last.evaluated = IF Within(mat._range_, last.omega)
                            THEN <<assigned.value>> ELSE <<>>
\* n has accepted an omega that the range of the time of the assignment of
\* the function did not hold.
C4_Witness ==
    /\ last.op = "n"
    /\ assigned.range_ # NoneRange
    /\ ~Within(assigned.range_, last.omega)
    /\ last.evaluated = <<assigned.value>>

\* C5 as stated: a construction or an assignment with a range whose length
\* is not 2 raises a PropertySetError naming range_, one with a dispersion
\* function that is not callable raises a PropertySetError naming n, and a
\* failed construction produces no material.
C5_SetErrors ==
    /\ (last.op = "Material" /\ Len(last.range_) # 2) =>
          last.out.exc = "PropertySetError" /\ last.out.property_ = "range_"
    /\ (last.op = "range_" /\ Len(last.value) # 2) =>
          last.out.exc = "PropertySetError" /\ last.out.property_ = "range_"
    /\ (last.op = "Material" /\ last.n \in NotCallable) =>
          last.out.exc = "PropertySetError" /\ last.out.property_ = "n"
    /\ (last.op = "n =" /\ last.value \in NotCallable) =>
          last.out.exc = "PropertySetError" /\ last.out.property_ = "n"
    /\ (last.op = "Material" /\ Raised(last.out)) => mat = NoneValue
\* C5: a dispersion function that is not callable, constructed with or
\* assigned, raises a PropertySetError naming n, whatever the range given
\* with it (the constructor assigns the function first).  A range whose
\* length is not 2 raises a PropertySetError naming range_ when it is
\* assigned, and when it is constructed with together with a callable
\* function.  A failed construction produces no material.
C5_SetErrorsInOrder ==
    /\ (last.op = "Material" /\ last.n \notin NotCallable
            /\ Len(last.range_) # 2) =>
          last.out.exc = "PropertySetError" /\ last.out.property_ = "range_"
    /\ (last.op = "range_" /\ Len(last.value) # 2) =>
          last.out.exc = "PropertySetError" /\ last.out.property_ = "range_"
    /\ (last.op = "Material" /\ last.n \in NotCallable) =>
          last.out.exc = "PropertySetError" /\ last.out.property_ = "n"
    /\ (last.op = "n =" /\ last.value \in NotCallable) =>
          last.out.exc = "PropertySetError" /\ last.out.property_ = "n"
    /\ (last.op = "Material" /\ Raised(last.out)) => mat = NoneValue
\* A construction with a callable function and a range of length 3 has
\* failed, naming range_, and has left no material.
C5_Witness ==
    /\ last.op = "Material"
    /\ last.n \notin NotCallable
    /\ Len(last.range_) = 3
    /\ last.out.exc = "PropertySetError"
    /\ last.out.property_ = "range_"
    /\ mat = NoneValue

\* The data list of a record, its entries by tag, and the first of a set of
\* positions (0 if there is none).
DataOf(entry) == IF "DATA" \in DOMAIN entry THEN entry.DATA ELSE <<>>
IsFormula(datum) == datum.type[1] = "formula"
IsTabulated(datum) == datum.type[1] = "tabulated"
IsTabulatedN(datum) == datum.type = <<"tabulated", "n">>
Supported(datum) == datum.type[2] \in {ToString(k) : k \in 1..9}
Earliest(S) == IF S = {} THEN 0 ELSE CHOOSE i \in S : \A j \in S : i <= j
FirstFormula(data) == Earliest({i \in 1..Len(data) : IsFormula(data[i])})
FirstHandled(data) ==
    Earliest({i \in 1..Len(data) : IsFormula(data[i]) \/ IsTabulatedN(data[i])})
\* The larger and the smaller of the two numbers of a range field.
Larger(range_) == IF RLess(range_[1], range_[2]) THEN range_[2] ELSE range_[1]
Smaller(range_) == IF RLess(range_[1], range_[2]) THEN range_[1] ELSE range_[2]
\* The material is the one built from the formula entry `datum`.
BuiltFrom(datum) ==
    /\ ~Raised(last.out)
    /\ mat.type_ = datum.type
    /\ ToString(mat._n.value.formula) = datum.type[2]
    /\ mat._n.value.coefficients =
          [k \in 1..Len(datum.coefficients) |-> Round(datum.coefficients[k])]
    /\ mat._range_ = <<frequency(Round(Larger(datum.range))),
                       frequency(Round(Smaller(datum.range)))>>
\* The construction has raised the RangeError of the formula of `datum`.
Unsupported(datum) ==
    /\ last.out.exc = "RangeError"
    /\ ToString(last.out.value) = datum.type[2]
    /\ last.out.valid = <<1, 9>>
    /\ mat = NoneValue

\* C6 as stated: the dispersion function and the range are those of the
\* first formula entry of the data list, later formula entries being
\* ignored and the entries before it, tabulated ones among them, skipped.
C6_FirstFormula ==
    (/\ last.op = "RIIDMaterial"
     /\ FirstFormula(DataOf(last.entry)) # 0
     /\ Supported(DataOf(last.entry)[FirstFormula(DataOf(last.entry))])) =>
        BuiltFrom(DataOf(last.entry)[FirstFormula(DataOf(last.entry))])
\* C6: the dispersion function and the range are those of the first formula
\* entry of the data list, provided no entry tagged "tabulated n" comes
\* before it: later formula entries are ignored and earlier entries of other
\* tags ("tabulated k", unknown ones) are skipped.  An entry tagged
\* "tabulated n" ends the scan: when it comes before every formula entry the
\* construction fails with the error "No dispersion data found in RIID
\* entry" and builds no material.
C6_FirstHandled ==
    (/\ last.op = "RIIDMaterial"
     /\ FirstHandled(DataOf(last.entry)) # 0) =>
        /\ (/\ IsFormula(DataOf(last.entry)[FirstHandled(DataOf(last.entry))])
            /\ Supported(DataOf(last.entry)[FirstHandled(DataOf(last.entry))])) =>
                BuiltFrom(DataOf(last.entry)[FirstHandled(DataOf(last.entry))])
        /\ IsTabulatedN(DataOf(last.entry)[FirstHandled(DataOf(last.entry))]) =>
                /\ last.out = UltrafastError("No dispersion data found in RIID entry")
                /\ mat = NoneValue
\* A record whose data list is a "tabulated k" entry and then a formula entry
\* has built its material from the formula entry.
C6_Witness ==
    /\ last.op = "RIIDMaterial"
    /\ Len(DataOf(last.entry)) = 2
    /\ DataOf(last.entry)[1].type = <<"tabulated", "k">>
    /\ IsFormula(DataOf(last.entry)[2])
    /\ BuiltFrom(DataOf(last.entry)[2])

\* C7 as stated: a record whose first formula entry has an index outside
\* 1..9 raises the RangeError with that index as value and (1, 9) as valid,
\* and builds no material, whatever the other entries.
C7_BadFormula ==
    (/\ last.op = "RIIDMaterial"
     /\ FirstFormula(DataOf(last.entry)) # 0
     /\ ~Supported(DataOf(last.entry)[FirstFormula(DataOf(last.entry))])) =>
        Unsupported(DataOf(last.entry)[FirstFormula(DataOf(last.entry))])
\* C7: a record whose first formula entry has an index outside 1..9, and
\* comes before every entry tagged "tabulated n", raises the RangeError with
\* that index as value and (1, 9) as valid, and builds no material,
\* whatever the later entries.
C7_BadFormulaHandled ==
    (/\ last.op = "RIIDMaterial"
     /\ FirstHandled(DataOf(last.entry)) # 0
     /\ IsFormula(DataOf(last.entry)[FirstHandled(DataOf(last.entry))])
     /\ ~Supported(DataOf(last.entry)[FirstHandled(DataOf(last.entry))])) =>
        Unsupported(DataOf(last.entry)[FirstHandled(DataOf(last.entry))])
\* A record whose data list is formula 12 and then a supported formula has
\* raised the RangeError of 12.
C7_Witness ==
    /\ last.op = "RIIDMaterial"
    /\ Len(DataOf(last.entry)) = 2
    /\ DataOf(last.entry)[1].type = <<"formula", "12">>
    /\ IsFormula(DataOf(last.entry)[2])
    /\ Supported(DataOf(last.entry)[2])
    /\ last.out.exc = "RangeError"
    /\ last.out.value = 12

\* C8: a record without dispersion data (no data list, an empty data list,
\* or a data list without a formula or tabulated entry) fails with the base
\* error of the package whose message is "No dispersion data found in RIID
\* entry", and builds no material.
C8_NoDispersionData ==
    (/\ last.op = "RIIDMaterial"
     /\ \A i \in 1..Len(DataOf(last.entry)) :
            ~IsFormula(DataOf(last.entry)[i])
            /\ ~IsTabulated(DataOf(last.entry)[i])) =>
        /\ last.out.exc = "UltrafastError"
        /\ last.out.message = "No dispersion data found in RIID entry"
        /\ mat = NoneValue

\* C9: a material built from a formula entry with the range field "a b"
\* stores the range (frequency(max(a, b)), frequency(min(a, b))), which is
\* in ascending order.
C9_RangeFromWavelengths ==
    (last.op = "RIIDMaterial" /\ ~Raised(last.out)) =>
        /\ mat._range_ =
              <<frequency(Round(Larger(
                    DataOf(last.entry)[FirstFormula(DataOf(last.entry))].range))),
                frequency(Round(Smaller(
                    DataOf(last.entry)[FirstFormula(DataOf(last.entry))].range)))>>
        /\ RLess(mat._range_[1], mat._range_[2])
\* A material has been built from the range field "10 1".
C9_Witness ==
    /\ last.op = "RIIDMaterial"
    /\ ~Raised(last.out)
    /\ DataOf(last.entry)[FirstFormula(DataOf(last.entry))].range = <<Ten, One>>
    /\ mat._range_ = <<frequency(Ten), frequency(One)>>

\* |value - origin| <= k / 2^Prec * |origin|
Near(k) ==
    RLeq(RMul(<<Pow2(Prec), 1>>, RSub(value, origin)),
         RMul(<<k, 1>>, <<Abs(origin[1]), origin[2]>>))
    /\ RLeq(RMul(<<Pow2(Prec), 1>>, RSub(origin, value)),
            RMul(<<k, 1>>, <<Abs(origin[1]), origin[2]>>))
\* C10 as stated: wavelength(frequency(x)) = x for every nonzero finite
\* float x.
C10_RoundTrip ==
    steps = <<"frequency", "wavelength">> => value = origin
\* C10: frequency and wavelength are the same function, x -> 2*pi*c / x in
\* floating point, and wavelength(frequency(x)) and frequency(wavelength(x))
\* return x up to the rounding of the two divisions: within a relative error
\* of 3 units of roundoff (2^-Prec), not always x itself.
C10_RoundTripRounded ==
    /\ Len(steps) = 1 => value = FDiv(FMul(FMul(c, Two), pi), origin)
    /\ Len(steps) = 2 => Near(3)
\* wavelength(frequency(x)) has returned a float other than x.
C10_Witness ==
    /\ steps = <<"frequency", "wavelength">>
    /\ value # origin
    /\ Near(3)

\* The number of coefficients is the one of the grouping of the formula:
\* exactly 4 for formula 8, exactly 6 for formula 9, any number from 3 on
\* for formula 7, complete groups for the others.
Grouped(formula, coefficients) ==
    CASE formula = 8 -> Len(coefficients) = 4
      [] formula = 9 -> Len(coefficients) = 6
      [] OTHER -> CorrectlySized(formula, coefficients)
\* The number of coefficients that formulas 8 and 9 read.
Read(formula) == IF formula = 8 THEN 4 ELSE 6
\* n has been called, with an omega of the range, on the formula of a record.
FormulaCalled ==
    /\ last.op = "n"
    /\ mat._n.value.kind = "fun_of_omega"
    /\ Within(mat._range_, last.omega)

\* C11 as stated: for every formula 1..9, a coefficient list whose length
\* does not match the grouping of the formula (too few, too many, an
\* incomplete trailing group) makes n fail with an IndexError, and never
\* yields a refractive index.
C11_IndexError ==
    (FormulaCalled
     /\ ~Grouped(mat._n.value.formula, mat._n.value.coefficients)) =>
        last.out.exc = "IndexError"
\* C11: for every formula 1..9, a coefficient list too short for the
\* formula, or ending in an incomplete trailing group, never yields a
\* refractive index: n, called with an omega of the range, raises the
\* IndexError, or the ZeroDivisionError or ValueError of a term that is
\* evaluated before the missing coefficient is reached.  Coefficients in
\* surplus are not detected: formula 8 reads its first 4 coefficients and
\* formula 9 its first 6, and a longer list yields what the list cut to that
\* length yields.
C11_TooShort ==
    FormulaCalled =>
        /\ ~CorrectlySized(mat._n.value.formula, mat._n.value.coefficients) =>
              last.out.exc \in {"IndexError", "ZeroDivisionError", "ValueError"}
        /\ (/\ mat._n.value.formula \in {8, 9}
            /\ Len(mat._n.value.coefficients) > Read(mat._n.value.formula)) =>
              last.out =
                 fun_of_omega(
                     frequency_wrap(mat._n.value.formula,
                                    SubSeq(mat._n.value.coefficients, 1,
                                           Read(mat._n.value.formula))),
                     last.omega)
\* n has been called on a formula 1 whose coefficients end in half a pair,
\* and has raised the IndexError.
C11_Witness ==
    /\ FormulaCalled
    /\ mat._n.value.formula = 1
    /\ Len(mat._n.value.coefficients) % 2 = 0
    /\ last.out.exc = "IndexError"

\* c[k] * p + c[k + 1] * p * sq + ... up to the last coefficient, c counted
\* from 1.
RECURSIVE PolySum(_, _, _, _)
PolySum(coefficients, k, p, sq) ==
    IF k > Len(coefficients) THEN Zero
    ELSE RAdd(RMul(coefficients[k], p),
              PolySum(coefficients, k + 1, RMul(p, sq), sq))
\* c[0] + c[1] / (L^2 - 0.028) + c[2] / (L^2 - 0.028)^2 + the sum over
\* i = 1, 2, ... of c[i + shift] * L^(2i), c counted from 0.
HerzbergerOf(coefficients, L, shift) ==
    RAdd(RAdd(RAdd(coefficients[1],
                   RDiv(coefficients[2], RSub(RMul(L, L), Herzberger))),
              RDiv(coefficients[3],
                   RMul(RSub(RMul(L, L), Herzberger),
                        RSub(RMul(L, L), Herzberger)))),
         PolySum(coefficients, shift + 2, RMul(L, L), RMul(L, L)))
\* n has been called on a formula 7 of at least 3 coefficients, and has
\* returned.
Formula7Returned ==
    /\ FormulaCalled
    /\ mat._n.value.formula = 7
    /\ Len(mat._n.value.coefficients) >= 3
    /\ ~Raised(last.out)

\* C12 as stated: formula 7 returns n = c[0] + c[1]/(L^2 - 0.028) +
\* c[2]/(L^2 - 0.028)^2 + the sum over i = 1, 2, ... of c[i + 3] * L^(2i),
\* directly, with no square root.
C12_Herzberger ==
    Formula7Returned =>
        last.out.ret =
            [num |-> HerzbergerOf(mat._n.value.coefficients,
                                  wavelength(last.omega), 3),
             root |-> FALSE]
\* C12: formula 7 returns n = c[0] + c[1]/(L^2 - 0.028) +
\* c[2]/(L^2 - 0.028)^2 + the sum over i = 1, 2, ... of c[i + 2] * L^(2i)
\* over the coefficients that remain after c[2] (c[3] multiplies L^2, c[4]
\* multiplies L^4), directly, with no square root.
C12_HerzbergerFromFourth ==
    Formula7Returned =>
        last.out.ret =
            [num |-> HerzbergerOf(mat._n.value.coefficients,
                                  wavelength(last.omega), 2),
             root |-> FALSE]
\* Formula 7 with five coefficients has returned c[0] + c[3] * L^2 +
\* c[4] * L^4, which is not what the sum from c[4] on gives.
C12_Witness ==
    /\ Formula7Returned
    /\ Len(mat._n.value.coefficients) = 5
    /\ last.out.ret.num =
          HerzbergerOf(mat._n.value.coefficients, wavelength(last.omega), 2)
    /\ last.out.ret.num #
          HerzbergerOf(mat._n.value.coefficients, wavelength(last.omega), 3)

====
